---- MODULE Spec2Model ----
(***************************************************************************)
(* Model of the two dashboards of this repository.                         *)
(*                                                                         *)
(*   src/job_dashboard.py  the job application tracker: the field          *)
(*       heuristics of extract_job_details, the SQLite table               *)
(*       "applications" and the three button handlers, run by the          *)
(*       framework top to bottom once per interaction and per session.     *)
(*   src/App.py            the adverse event viewer: fetch_data under      *)
(*       st.cache_data(ttl=3600).                                          *)
(*                                                                         *)
(* Text is a sequence of one-character strings, so that splitting,         *)
(* lower-casing, substring search, replacement, trimming, formatting and   *)
(* parsing are computed the way the code computes them.                    *)
(***************************************************************************)
EXTENDS Integers, Sequences, FiniteSets, TLC

VARIABLES
    \* extract_job_details, src/job_dashboard.py:75-105
    description,    \* the pasted text
    entities,       \* what ner_pipeline(description) returned
    job_details,    \* the returned mapping, NoDetails before the call
    \* the database file job_applications.db
    db,             \* [exists, columns, rows: id -> (column -> value), seq]
    \* one script run per browser session and interaction
    pc,             \* where the session's script run stands
    button,         \* the button whose click started the run
    df,             \* the frame read at line 142, kept until the next read
    session_state,  \* the edit forms' widget values: idx -> column -> value
    job_to_delete,  \* the selectbox's selected position in its option list
    crashed,        \* the session's run ended in an uncaught exception
    issued,         \* history: every id the table has ever assigned
    missed,         \* history: the ids an UPDATE or DELETE found gone
    \* fetch_data, src/App.py:63-79
    cache,          \* st.cache_data's entries: key -> [value, expires]
    now,            \* the clock, in seconds
    call,           \* the call of fetch_data of the Fetch Data handler
    requests        \* history: the latest HTTP request for each key

extractVars == <<description, entities, job_details>>
sessionVars == <<pc, button, df, session_state, job_to_delete, crashed>>
jobVars == <<db, sessionVars, issued, missed>>
fetchVars == <<cache, now, call, requests>>
vars == <<extractVars, jobVars, fetchVars>>

----------------------------------------------------------------------------
(* Bounds of the model.                                                    *)

MaxLines == 2
MaxIssued == 3
MaxTicks == 2

----------------------------------------------------------------------------
(* Python's str operations on sequences of characters.                     *)

UpperChars ==
    <<"A","B","C","D","E","F","G","H","I","J","K","L","M",
      "N","O","P","Q","R","S","T","U","V","W","X","Y","Z">>

LowerChars ==
    <<"a","b","c","d","e","f","g","h","i","j","k","l","m",
      "n","o","p","q","r","s","t","u","v","w","x","y","z">>

Digits ==
    <<"0","1","2","3","4","5","6","7","8","9">>

Whitespace ==
    {" ", "\n", "\t", "\r"}

IsDigit(c) ==
    \E i \in 1..Len(Digits) : Digits[i] = c

LowerChar(c) ==
    IF \E i \in 1..Len(UpperChars) : UpperChars[i] = c
    THEN LowerChars[CHOOSE i \in 1..Len(UpperChars) : UpperChars[i] = c]
    ELSE c

\* s.lower()
lower(s) ==
    [i \in 1..Len(s) |-> LowerChar(s[i])]

\* whether s has sub at position i (1-based)
HasAt(s, i, sub) ==
    /\ i >= 1
    /\ i + Len(sub) - 1 <= Len(s)
    /\ \A j \in 1..Len(sub) : s[i + j - 1] = sub[j]

\* sub in s
contains(sub, s) ==
    \E i \in 1..(Len(s) - Len(sub) + 1) : HasAt(s, i, sub)

\* s.replace(old, new): every non-overlapping occurrence, left to right
RECURSIVE ReplaceFrom(_, _, _, _)
ReplaceFrom(s, i, old, new) ==
    IF i > Len(s) THEN << >>
    ELSE IF HasAt(s, i, old) THEN new \o ReplaceFrom(s, i + Len(old), old, new)
    ELSE <<s[i]>> \o ReplaceFrom(s, i + 1, old, new)

replace(s, old, new) ==
    ReplaceFrom(s, 1, old, new)

\* s.strip()
strip(s) ==
    LET inner == {i \in 1..Len(s) : s[i] \notin Whitespace}
    IN  IF inner = {} THEN << >>
        ELSE LET lo == CHOOSE i \in inner : \A j \in inner : i <= j
                 hi == CHOOSE i \in inner : \A j \in inner : j <= i
             IN  SubSeq(s, lo, hi)

\* s.splitlines(), for the line boundary "\n": no empty last line after a
\* final line break, and no line at all for the empty text
RECURSIVE SplitFrom(_, _, _)
SplitFrom(s, i, line) ==
    IF i > Len(s) THEN (IF line = << >> THEN << >> ELSE <<line>>)
    ELSE IF s[i] = "\n" THEN <<line>> \o SplitFrom(s, i + 1, << >>)
    ELSE SplitFrom(s, i + 1, Append(line, s[i]))

splitlines(s) ==
    SplitFrom(s, 1, << >>)

----------------------------------------------------------------------------
(* extract_job_details, src/job_dashboard.py:75-105.                       *)

kwRole == \* 'role:'
    <<"r","o","l","e",":">>

kwTitle == \* 'title'
    <<"t","i","t","l","e">>

litRole == \* 'Role:'
    <<"R","o","l","e",":">>

litTitle == \* 'Title:'
    <<"T","i","t","l","e",":">>

keywords ==
    {<<"r","e","q","u","i","r","e","m","e","n","t">>,
     <<"r","e","s","p","o","n","s","i","b","i","l","i","t","y">>,
     <<"d","u","t","i","e","s">>,
     <<"d","e","v","e","l","o","p","i","n","g">>,
     <<"a","n","a","l","y","z","i","n","g">>}

\* \d{2,3} at position i, greedy: the number of digits taken, 0 for no match
DigitRun(s, i) ==
    LET d(k) == i + k <= Len(s) /\ IsDigit(s[i + k])
    IN  IF d(0) /\ d(1) /\ d(2) THEN 3
        ELSE IF d(0) /\ d(1) THEN 2
        ELSE 0

\* \$\d{2,3}(?:,\d{3})?(?:K)? at position i under re.IGNORECASE: the position
\* after the match, 0 for no match. Every part after the digits is optional, so
\* the greedy choice of each part is the one the match keeps.
AmountEnd(s, i) ==
    IF ~(i <= Len(s) /\ s[i] = "$" /\ DigitRun(s, i + 1) > 0) THEN 0
    ELSE LET j == i + 1 + DigitRun(s, i + 1)
             k == IF /\ j + 3 <= Len(s)
                     /\ s[j] = ","
                     /\ \A m \in 1..3 : IsDigit(s[j + m])
                  THEN j + 4 ELSE j
         IN  IF k <= Len(s) /\ s[k] \in {"K", "k"} THEN k + 1 ELSE k

\* \s* from position i: the position of the first character that is no space
RECURSIVE SkipSpace(_, _)
SkipSpace(s, i) ==
    IF i <= Len(s) /\ s[i] \in Whitespace THEN SkipSpace(s, i + 1) ELSE i

\* the whole pattern of line 86 at position i: the position after the match
SalaryEnd(s, i) ==
    LET a == AmountEnd(s, i)
        dash == SkipSpace(s, a)
        b == IF a > 0 /\ dash <= Len(s) /\ s[dash] = "-"
             THEN AmountEnd(s, SkipSpace(s, dash + 1)) ELSE 0
    IN  IF b > 0 THEN b ELSE a

\* re.search(...).group().strip(), "" when nothing matches
salary_match(s) ==
    LET starts == {i \in 1..Len(s) : SalaryEnd(s, i) > 0}
    IN  IF starts = {} THEN << >>
        ELSE LET i == CHOOSE i \in starts : \A j \in starts : i <= j
             IN  strip(SubSeq(s, i, SalaryEnd(s, i) - 1))

\* the first entity of the group with a word that is not empty, "" when there
\* is none: `not job_details[...]` lets a later entity replace an empty word
\* (lines 91-95)
FirstWord(ents, group) ==
    LET at == {i \in 1..Len(ents) :
                  ents[i].entity_group = group /\ ents[i].word # << >>}
    IN  IF at = {} THEN << >>
        ELSE ents[CHOOSE i \in at : \A j \in at : i <= j].word

IsTitleLine(line) ==
    contains(kwRole, lower(line)) \/ contains(kwTitle, lower(line))

IsKeywordLine(line) ==
    \E keyword \in keywords : contains(keyword, lower(line))

\* line 100 as a removal of the leading label only
TitleOfLeadingPrefix(line) ==
    LET t == strip(line)
    IN  IF HasAt(t, 1, litRole) THEN strip(SubSeq(t, Len(litRole) + 1, Len(t)))
        ELSE IF HasAt(t, 1, litTitle)
        THEN strip(SubSeq(t, Len(litTitle) + 1, Len(t)))
        ELSE t

\* line 100
TitleOf(line) ==
    strip(replace(replace(line, litRole, << >>), litTitle, << >>))

\* the loop of lines 98-102 with `if` in place of `elif`
RECURSIVE LineLoopBoth(_, _, _)
LineLoopBoth(lines, i, jd) ==
    IF i > Len(lines) THEN jd
    ELSE LET line == lines[i]
             jt == IF IsTitleLine(line)
                   THEN [jd EXCEPT !["Job Title"] = TitleOf(line)] ELSE jd
         IN  IF IsKeywordLine(line)
             THEN LineLoopBoth(lines, i + 1,
                               [jt EXCEPT !["Requirements"] =
                                    @ \o strip(line) \o <<" ">>])
             ELSE LineLoopBoth(lines, i + 1, jt)

\* one pass of the loop of lines 98-102 over lines[i..]
RECURSIVE LineLoop(_, _, _)
LineLoop(lines, i, jd) ==
    IF i > Len(lines) THEN jd
    ELSE LET line == lines[i]
         IN  IF IsTitleLine(line)
             THEN LineLoop(lines, i + 1,
                           [jd EXCEPT !["Job Title"] = TitleOf(line)])
             ELSE IF IsKeywordLine(line)
             THEN LineLoop(lines, i + 1,
                           [jd EXCEPT !["Requirements"] =
                                @ \o strip(line) \o <<" ">>])
             ELSE LineLoop(lines, i + 1, jd)

Keys ==
    {"Job Title", "Company", "Location", "Requirements", "Salary"}

extract_job_details(text, ents) ==
    LET jd0 == [k \in Keys |->
                   CASE k = "Salary" -> salary_match(text)
                     [] k = "Company" -> FirstWord(ents, "ORG")
                     [] k = "Location" -> FirstWord(ents, "LOC")
                     [] OTHER -> << >>]
        jd1 == LineLoop(splitlines(text), 1, jd0)
    IN  [jd1 EXCEPT !["Requirements"] = strip(@)]


----------------------------------------------------------------------------
(* The texts and entity lists the extraction is applied to.                *)

LineTitleBackend == \* 'Title: Backend Engineer'
    <<"T","i","t","l","e",":"," ","B","a","c","k","e","n","d"," ","E","n","g","i","n","e","e","r">>

LineSeniorityTitle == \* 'Seniority Title: Staff'
    <<"S","e","n","i","o","r","i","t","y"," ","T","i","t","l","e",":"," ","S","t","a","f","f">>

LineRoleDeveloping == \* 'Role: developing apps'
    <<"R","o","l","e",":"," ","d","e","v","e","l","o","p","i","n","g"," ","a","p","p","s">>

LineDuties == \* '  Duties: analyzing data '
    <<" "," ","D","u","t","i","e","s",":"," ","a","n","a","l","y","z","i","n","g"," ","d","a","t","a"," ">>

LineRequirements == \* 'Requirements: SQL'
    <<"R","e","q","u","i","r","e","m","e","n","t","s",":"," ","S","Q","L">>

LineSalary == \* 'Salary: $90,000 - $120,000'
    <<"S","a","l","a","r","y",":"," ","$","9","0",",","0","0","0"," ","-"," ","$","1","2","0",",","0","0","0">>

LineUpperTitle == \* 'job TITLE 7'
    <<"j","o","b"," ","T","I","T","L","E"," ","7">>

LineRoleScientist == \* 'Role: Data Scientist'
    <<"R","o","l","e",":"," ","D","a","t","a"," ","S","c","i","e","n","t","i","s","t">>

LineCompany == \* 'Company mentions Acme Corp in Seattle.'
    <<"C","o","m","p","a","n","y"," ","m","e","n","t","i","o","n","s"," ","A","c","m","e"," ","C","o","r","p"," ","i","n"," ","S","e","a","t","t","l","e",".">>

LineResponsibilities == \* 'Responsibilities: developing ML pipelines.'
    <<"R","e","s","p","o","n","s","i","b","i","l","i","t","i","e","s",":"," ","d","e","v","e","l","o","p","i","n","g"," ","M","L"," ","p","i","p","e","l","i","n","e","s",".">>

WordAcme == \* 'Acme Corp'
    <<"A","c","m","e"," ","C","o","r","p">>

WordSeattle == \* 'Seattle'
    <<"S","e","a","t","t","l","e">>

WordGlobex == \* 'Globex 42'
    <<"G","l","o","b","e","x"," ","4","2">>

WordParis == \* 'Paris'
    <<"P","a","r","i","s">>

Date1 == \* '2024-05-01'
    <<"2","0","2","4","-","0","5","-","0","1">>

Date2 == \* '2024-05-02'
    <<"2","0","2","4","-","0","5","-","0","2">>

ExtractLines ==
    {LineTitleBackend, LineSeniorityTitle, LineRoleDeveloping, LineDuties,
     LineRequirements, LineSalary, LineUpperTitle, << >>}

\* "\n".join(ls)
RECURSIVE JoinLines(_)
JoinLines(ls) ==
    IF ls = << >> THEN << >>
    ELSE IF Len(ls) = 1 THEN ls[1]
    ELSE ls[1] \o <<"\n">> \o JoinLines(Tail(ls))

LineLists ==
    UNION {[1..n -> ExtractLines] : n \in 0..MaxLines}

Descriptions ==
    {JoinLines(ls) : ls \in LineLists}

Entity(group, word) ==
    [entity_group |-> group, word |-> word]

EntityLists ==
    {<< >>,
     <<Entity("ORG", WordAcme), Entity("LOC", WordSeattle)>>,
     <<Entity("MISC", WordParis), Entity("LOC", WordParis),
       Entity("ORG", WordGlobex), Entity("ORG", WordAcme),
       Entity("LOC", WordSeattle)>>}

NoDetails ==
    << >>

(* The job tracker at rest and the viewer's empty cache: the values of the  *)
(* variables a specification does not move.                                 *)
JobIdle ==
    /\ db = << >>
    /\ pc = << >>
    /\ button = << >>
    /\ df = << >>
    /\ session_state = << >>
    /\ job_to_delete = << >>
    /\ crashed = << >>
    /\ issued = {}
    /\ missed = {}

FetchIdle ==
    /\ cache = << >>
    /\ now = 0
    /\ call = << >>
    /\ requests = << >>

ExtractIdle ==
    /\ description = << >>
    /\ entities = << >>
    /\ job_details = NoDetails

InitExtract ==
    /\ description \in Descriptions
    /\ entities \in EntityLists
    /\ job_details = NoDetails
    /\ JobIdle
    /\ FetchIdle

\* the call of line 122 on the pasted text
Extract ==
    /\ job_details = NoDetails
    /\ job_details' = extract_job_details(description, entities)
    /\ UNCHANGED <<description, entities, jobVars, fetchVars>>

NextExtract ==
    Extract

SpecExtract ==
    InitExtract /\ [][NextExtract]_vars

----------------------------------------------------------------------------
(* Claims about extract_job_details, checked under SpecExtract.            *)

Extracted ==
    job_details # NoDetails

\* " ".join(ss)
RECURSIVE JoinSpace(_)
JoinSpace(ss) ==
    IF ss = << >> THEN << >>
    ELSE IF Len(ss) = 1 THEN ss[1]
    ELSE ss[1] \o <<" ">> \o JoinSpace(Tail(ss))

MatchesTitle(line) ==
    \/ \E i \in 1..Len(line) : HasAt(lower(line), i, kwRole)
    \/ \E i \in 1..Len(line) : HasAt(lower(line), i, kwTitle)

MatchesKeyword(line) ==
    \E keyword \in keywords :
        \E i \in 1..Len(line) : HasAt(lower(line), i, keyword)

Trimmed(ls) ==
    [i \in 1..Len(ls) |-> strip(ls[i])]

\* the last line of the text that matches "role:" or "title", 0 for none
LastTitleLine(ls) ==
    LET at == {i \in 1..Len(ls) : MatchesTitle(ls[i])}
    IN  IF at = {} THEN 0 ELSE CHOOSE i \in at : \A j \in at : j <= i

ExampleTitles ==
    JoinLines(<<LineTitleBackend, LineSeniorityTitle>>)

SeniorityStaffKept == \* 'Seniority Title: Staff'
    LineSeniorityTitle

SeniorityStaffCut == \* 'Seniority  Staff'
    <<"S","e","n","i","o","r","i","t","y"," "," ","S","t","a","f","f">>

\* C8 as stated: Requirements is the space-joined sequence, in line order, of
\* every trimmed line that contains one of the five keywords in any case; no
\* such line is left out and no other line is included.
C8_EveryKeywordLineCollected ==
    Extracted =>
        job_details["Requirements"] =
            JoinSpace(Trimmed(SelectSeq(splitlines(description), MatchesKeyword)))

\* C8 as amended: Requirements is the space-joined sequence, in line order, of
\* every trimmed line that contains one of the five keywords in any case and
\* contains neither "role:" nor "title" in any case; a keyword line that the
\* title branch takes is left out, and no other line is included.
C8_KeywordLinesOutsideTitleCollected ==
    LET Collected(line) == MatchesKeyword(line) /\ ~MatchesTitle(line)
    IN  Extracted =>
            job_details["Requirements"] =
                JoinSpace(Trimmed(SelectSeq(splitlines(description), Collected)))

\* C8's case: a keyword line that is also a title line, before a keyword line
\* that is collected.
C8_Witness ==
    /\ Extracted
    /\ description = JoinLines(<<LineRoleDeveloping, LineDuties>>)
    /\ job_details["Requirements"] = strip(LineDuties)

\* C9 as stated: Job Title is the last line containing "role:" or "title" in
\* any case, trimmed, with only a leading "Role:" or "Title:" removed and the
\* rest kept character for character; "" without such a line; the two example
\* lines give "Seniority Title: Staff".
C9_OnlyLeadingPrefixRemoved ==
    LET ls == splitlines(description)
        last == LastTitleLine(ls)
        t == strip(ls[last])
    IN  Extracted =>
            /\ job_details["Job Title"] =
                   IF last = 0 THEN << >>
                   ELSE IF HasAt(t, 1, litRole)
                   THEN strip(SubSeq(t, Len(litRole) + 1, Len(t)))
                   ELSE IF HasAt(t, 1, litTitle)
                   THEN strip(SubSeq(t, Len(litTitle) + 1, Len(t)))
                   ELSE t
            /\ description = ExampleTitles =>
                   job_details["Job Title"] = SeniorityStaffKept

\* C9 as amended: Job Title is the last line containing "role:" or "title" in
\* any case, with every occurrence of "Role:" and then every occurrence of
\* "Title:" removed wherever it stands in the line, and then trimmed; "" without
\* such a line; the two example lines give "Seniority  Staff".
C9_EveryOccurrenceRemoved ==
    LET ls == splitlines(description)
        last == LastTitleLine(ls)
    IN  Extracted =>
            /\ job_details["Job Title"] =
                   IF last = 0 THEN << >>
                   ELSE strip(replace(replace(ls[last], litRole, << >>),
                                      litTitle, << >>))
            /\ description = ExampleTitles =>
                   job_details["Job Title"] = SeniorityStaffCut

\* C9's case: the two example lines, the later one with "Title:" inside it.
C9_Witness ==
    /\ Extracted
    /\ description = ExampleTitles
    /\ job_details["Job Title"] = SeniorityStaffCut

----------------------------------------------------------------------------
(* The table applications of job_applications.db, as SQLite keeps it.      *)

\* SQL NULL, Python None: no sequence of characters
NULL ==
    <<"NULL">>

Range(seq) ==
    {seq[i] : i \in 1..Len(seq)}

Max(S) ==
    IF S = {} THEN 0 ELSE CHOOSE x \in S : \A y \in S : y <= x

\* the columns of CREATE TABLE, in its order (lines 60-68)
Columns ==
    <<"id", "job_title", "company", "location", "requirements", "salary",
      "date">>

\* the columns INSERT and UPDATE name (lines 129 and 159), and the keys of
\* job_details bound to them in the same order (lines 131-136)
Fields ==
    <<"job_title", "company", "location", "requirements", "salary", "date">>

DetailKeys ==
    <<"Job Title", "Company", "Location", "Requirements", "Salary", "Date">>

NoTable ==
    [exists |-> FALSE, columns |-> << >>, rows |-> [k \in {} |-> << >>],
     seq |-> 0]

Ids(d) ==
    DOMAIN d.rows

\* a start without the ALTER TABLE
AlterSkipped(d) ==
    d

\* ALTER TABLE applications ADD COLUMN salary TEXT, an OperationalError of
\* SQLite (no such table, duplicate column name) caught and ignored: the rows
\* there get NULL in the new column (lines 53-57)
AlterAddSalary(d) ==
    IF d.exists /\ "salary" \notin Range(d.columns)
    THEN [d EXCEPT
            !.columns = Append(@, "salary"),
            !.rows = [k \in DOMAIN @ |->
                        [c \in DOMAIN @[k] \cup {"salary"} |->
                            IF c = "salary" THEN NULL ELSE @[k][c]]]]
    ELSE d

\* CREATE TABLE IF NOT EXISTS applications (...) (lines 60-69)
CreateTable(d) ==
    IF d.exists THEN d
    ELSE [exists |-> TRUE, columns |-> Columns,
          rows |-> [k \in {} |-> << >>], seq |-> 0]

\* the rowid a table without AUTOINCREMENT assigns: one more than the largest
\* rowid present
NextRowidOfPresent(d) ==
    Max(Ids(d)) + 1

\* the id INTEGER PRIMARY KEY AUTOINCREMENT assigns: one more than the largest
\* rowid the table has ever held, which sqlite_sequence records (line 61)
NextRowid(d) ==
    Max(Ids(d) \cup {d.seq}) + 1

\* an INSERT that stores NULL for an empty string
InsertEmptyAsNull(d, vals) ==
    LET id == NextRowid(d)
        row == [c \in Range(d.columns) \ {"id"} |->
                   IF c \in DOMAIN vals /\ vals[c] # << >> THEN vals[c]
                   ELSE NULL]
    IN  [d EXCEPT
            !.rows = [k \in DOMAIN @ \cup {id} |->
                         IF k = id THEN row ELSE @[k]],
            !.seq = id]

\* INSERT INTO applications (job_title, ..., date) VALUES (?, ..., ?): a column
\* the statement does not name gets NULL (lines 129-138)
Insert(d, vals) ==
    LET id == NextRowid(d)
        row == [c \in Range(d.columns) \ {"id"} |->
                   IF c \in DOMAIN vals THEN vals[c] ELSE NULL]
    IN  [d EXCEPT
            !.rows = [k \in DOMAIN @ \cup {id} |->
                         IF k = id THEN row ELSE @[k]],
            !.seq = id]

\* INSERT OR REPLACE in place of UPDATE: a row is written whether or not the
\* id is there
Upsert(d, param, vals) ==
    IF param.type # "INTEGER" THEN d
    ELSE [d EXCEPT
            !.rows = [k \in DOMAIN @ \cup {param.value} |->
                         IF k = param.value
                         THEN [c \in Range(d.columns) \ {"id"} |->
                                  IF c \in DOMAIN vals THEN vals[c] ELSE NULL]
                         ELSE @[k]]]

\* UPDATE applications SET job_title=?, ..., date=? WHERE id=?: the rows whose
\* id equals the bound parameter; an INTEGER id equals no BLOB, and an id that
\* is not there matches no row, which is no error (line 159)
Update(d, param, vals) ==
    IF param.type = "INTEGER" /\ param.value \in Ids(d)
    THEN [d EXCEPT
            !.rows[param.value] =
                [c \in DOMAIN @ |-> IF c \in DOMAIN vals THEN vals[c] ELSE @[c]]]
    ELSE d

\* DELETE FROM applications WHERE id=?: the rows whose id equals the bound
\* parameter (line 186)
Delete(d, param) ==
    IF param.type = "INTEGER"
    THEN [d EXCEPT !.rows = [k \in DOMAIN @ \ {param.value} |-> @[k]]]
    ELSE d

\* SELECT * FROM applications: the rows in rowid order, each with its id
\* (line 142)
RECURSIVE RowsFrom(_, _)
RowsFrom(d, S) ==
    IF S = {} THEN << >>
    ELSE LET k == CHOOSE x \in S : \A y \in S : x <= y
         IN  <<[c \in Range(d.columns) |->
                   IF c = "id" THEN k ELSE d.rows[k][c]]>>
             \o RowsFrom(d, S \ {k})

SelectAll(d) ==
    RowsFrom(d, Ids(d))

----------------------------------------------------------------------------
(* Formatting and parsing of the delete selector (lines 181-185).          *)

\* str(n) of an integer n >= 0
RECURSIVE IntToStr(_)
IntToStr(n) ==
    IF n < 10 THEN <<Digits[n + 1]>>
    ELSE IntToStr(n \div 10) \o <<Digits[(n % 10) + 1]>>

\* int(s) of a sequence of decimal digits
RECURSIVE StrToInt(_)
StrToInt(s) ==
    IF s = << >> THEN 0
    ELSE LET c == s[Len(s)]
             v == (CHOOSE i \in 1..Len(Digits) : Digits[i] = c) - 1
         IN  10 * StrToInt(SubSeq(s, 1, Len(s) - 1)) + v

\* the digits from position i on
RECURSIVE DigitsFrom(_, _)
DigitsFrom(s, i) ==
    IF i <= Len(s) /\ IsDigit(s[i]) THEN <<s[i]>> \o DigitsFrom(s, i + 1)
    ELSE << >>

\* the last run of digits of s, "" when s has no digit
LastDigits(s) ==
    LET at == {i \in 1..Len(s) : IsDigit(s[i]) /\ (i = 1 \/ ~IsDigit(s[i - 1]))}
    IN  IF at = {} THEN << >>
        ELSE DigitsFrom(s, CHOOSE i \in at : \A j \in at : j <= i)

\* re.search(r"\d+", s).group(): the first run of digits of s, "" standing for
\* no match (line 185)
FirstDigits(s) ==
    LET at == {i \in 1..Len(s) : IsDigit(s[i])}
    IN  IF at = {} THEN << >>
        ELSE DigitsFrom(s, CHOOSE i \in at : \A j \in at : i <= j)

\* a value inside an f-string: None prints as "None"
TextNone == \* 'None'
    <<"N","o","n","e">>

Str(v) ==
    IF v = NULL THEN TextNone ELSE v

TextLabelId == \* 'ID '
    <<"I","D"," ">>

TextColon == \* ': '
    <<":"," ">>

TextDash == \* ' - '
    <<" ","-"," ">>

\* f"ID {row['id']}: {row['job_title']} - {row['company']}" (line 181)
Label(row) ==
    TextLabelId \o IntToStr(row["id"]) \o TextColon \o Str(row["job_title"])
        \o TextDash \o Str(row["company"])

Options(frame) ==
    [i \in 1..Len(frame) |-> Label(frame[i])]

\* the value a text widget starts from for the frame value given as its
\* `value`: the text, and for a NULL column, read as None, no text
\* (lines 149-154)
WidgetDefault(v) ==
    v

\* the forms after the widgets of lines 146-154 are drawn for the frame `new`
\* by a session whose last run drew them for `old` and holds `state`: a widget
\* keeps what the user typed while its key and its default are what they were,
\* and starts from its default otherwise
DrawForms(old, state, new) ==
    [idx \in 1..Len(new) |->
        [c \in Range(Fields) |->
            IF /\ idx <= Len(old)
               /\ WidgetDefault(old[idx][c]) = WidgetDefault(new[idx][c])
            THEN state[idx][c]
            ELSE WidgetDefault(new[idx][c])]]

\* the selectbox of line 181 drawn for `new`: the selected position is kept
\* while the option list is what it was, and is the first option otherwise
DrawSelect(old, selected, new) ==
    IF Options(old) = Options(new) THEN selected ELSE 1

\* the parameter SQLite receives for df.at[idx, "id"] (line 166). The frame
\* holds the id as a numpy.int64, which is no Python int: sqlite3 binds it
\* through the buffer protocol as a BLOB, unless the process has registered an
\* adapter that turns numpy integers into int.
BindFrameId(k, adapted) ==
    [type |-> IF adapted THEN "INTEGER" ELSE "BLOB", value |-> k]

\* the parameter SQLite receives for a Python int (line 186)
BindInt(k) ==
    [type |-> "INTEGER", value |-> k]

\* the loop of lines 158-167 from row idx on
RECURSIVE UpdateLoop(_, _, _, _, _)
UpdateLoop(d, frame, state, idx, adapted) ==
    IF idx > Len(frame) THEN d
    ELSE UpdateLoop(Update(d, BindFrameId(frame[idx]["id"], adapted),
                           state[idx]),
                    frame, state, idx + 1, adapted)

\* the record of lines 122-136 as the values INSERT binds, by column
InsertValues(jd) ==
    [c \in Range(Fields) |->
        jd[DetailKeys[CHOOSE i \in 1..Len(Fields) : Fields[i] = c]]]

----------------------------------------------------------------------------
(* The databases a process may start on, and what the users enter.         *)

JobTextDigits == \* 'Title: 7 Eleven 24\nPay $90K\nDuties: 3 shifts'
    <<"T","i","t","l","e",":"," ","7"," ","E","l","e","v","e","n"," ","2","4","\n","P","a","y"," ","$","9","0","K","\n","D","u","t","i","e","s",":"," ","3"," ","s","h","i","f","t","s">>

LegacyTitle == \* 'Role 66'
    <<"R","o","l","e"," ","6","6">>

LegacyCompany == \* 'Initech'
    <<"I","n","i","t","e","c","h">>

LegacyLocation == \* 'Austin'
    <<"A","u","s","t","i","n">>

LegacyRequirements == \* 'duties'
    <<"d","u","t","i","e","s">>

FormTitle == \* 'Dev 5'
    <<"D","e","v"," ","5">>

FormCompany == \* 'Acme 8'
    <<"A","c","m","e"," ","8">>

FormLocation == \* 'Seattle'
    <<"S","e","a","t","t","l","e">>

FormRequirements == \* 'SQL'
    <<"S","Q","L">>

FormSalary == \* '$120,000'
    <<"$","1","2","0",",","0","0","0">>

FormDate == \* '2024-06-30'
    <<"2","0","2","4","-","0","6","-","3","0">>

\* the table of an earlier version of the tracker, without the column salary
LegacyColumns ==
    <<"id", "job_title", "company", "location", "requirements", "date">>

LegacyDb ==
    [exists |-> TRUE, columns |-> LegacyColumns,
     rows |-> [k \in {11} |->
                 [c \in Range(LegacyColumns) \ {"id"} |->
                     CASE c = "job_title" -> LegacyTitle
                       [] c = "company" -> LegacyCompany
                       [] c = "location" -> LegacyLocation
                       [] c = "requirements" -> LegacyRequirements
                       [] OTHER -> Date1]],
     seq |-> 12]

\* what the user has typed into the six widgets of one form
FormInput ==
    [c \in Range(Fields) |->
        CASE c = "job_title" -> FormTitle
          [] c = "company" -> FormCompany
          [] c = "location" -> FormLocation
          [] c = "requirements" -> FormRequirements
          [] c = "salary" -> FormSalary
          [] OTHER -> FormDate]

\* a table this program created, with one row left of two
CurrentDb ==
    [exists |-> TRUE, columns |-> Columns,
     rows |-> [k \in {1} |-> FormInput],
     seq |-> 2]

InitialDbs ==
    {NoTable, LegacyDb, CurrentDb}

\* a pasted text, the entities the model finds in it, and the day
JobInputs ==
    {[description |-> << >>, entities |-> << >>, date |-> Date2],
     [description |-> JobTextDigits,
      entities |-> <<Entity("ORG", WordGlobex), Entity("LOC", WordParis)>>,
      date |-> Date1]}

FormInputs ==
    {FormInput}

Sessions ==
    {1, 2}

----------------------------------------------------------------------------
(* One script run of src/job_dashboard.py per session and interaction.     *)

Goto(s, p) ==
    pc' = [pc EXCEPT ![s] = p]

\* a user's interaction starts a script run from the top
Rerun(s, b) ==
    /\ Goto(s, "init")
    /\ button' = [button EXCEPT ![s] = b]

JobStart(dbs) ==
    /\ db \in dbs
    /\ pc = [s \in Sessions |-> "closed"]
    /\ button = [s \in Sessions |-> "none"]
    /\ df = [s \in Sessions |-> << >>]
    /\ session_state = [s \in Sessions |-> << >>]
    /\ job_to_delete = [s \in Sessions |-> 1]
    /\ crashed = [s \in Sessions |-> FALSE]
    /\ issued = Ids(db) \cup ({db.seq} \ {0})
    /\ missed = {}
    /\ ExtractIdle
    /\ FetchIdle

InitJob ==
    JobStart(InitialDbs)

\* the browser opens the page
Open(s) ==
    /\ pc[s] = "closed"
    /\ Rerun(s, "none")
    /\ UNCHANGED <<db, df, session_state, job_to_delete, crashed, issued,
                   missed, extractVars, fetchVars>>

\* the user presses one of the three buttons (lines 121, 157, 183)
Click(s, b) ==
    /\ pc[s] = "idle"
    /\ b = "extract" => Cardinality(issued) < MaxIssued
    /\ Rerun(s, b)
    /\ UNCHANGED <<db, df, session_state, job_to_delete, crashed, issued,
                   missed, extractVars, fetchVars>>

\* the user types into the widgets of one form (lines 149-154)
EditForm(s) ==
    /\ pc[s] = "idle"
    /\ \E idx \in 1..Len(df[s]), vals \in FormInputs :
          /\ session_state[s][idx] # vals
          /\ session_state' = [session_state EXCEPT ![s][idx] = vals]
    /\ Rerun(s, "none")
    /\ UNCHANGED <<db, df, job_to_delete, crashed, issued, missed,
                   extractVars, fetchVars>>

\* the user picks an option of the selectbox (line 181)
SelectJob(s) ==
    /\ pc[s] = "idle"
    /\ \E i \in 1..Len(df[s]) :
          /\ i # job_to_delete[s]
          /\ job_to_delete' = [job_to_delete EXCEPT ![s] = i]
    /\ Rerun(s, "none")
    /\ UNCHANGED <<db, df, session_state, crashed, issued, missed,
                   extractVars, fetchVars>>

\* the schema initialisation every run starts with (lines 48-69)
InitDb(s) ==
    /\ pc[s] = "init"
    /\ db' = CreateTable(AlterAddSalary(db))
    /\ Goto(s, "top")
    /\ UNCHANGED <<button, df, session_state, job_to_delete, crashed, issued,
                   missed, extractVars, fetchVars>>

\* the handler of Extract and Save Job Details (lines 121-139)
ExtractAndSave(s) ==
    /\ pc[s] = "top"
    /\ button[s] = "extract"
    /\ \E inp \in JobInputs :
          /\ description' = inp.description
          /\ entities' = inp.entities
          /\ job_details' =
                [k \in Keys \cup {"Date"} |->
                    IF k = "Date" THEN inp.date
                    ELSE extract_job_details(inp.description, inp.entities)[k]]
    /\ db' = Insert(db, InsertValues(job_details'))
    /\ issued' = issued \cup Ids(db')
    /\ Goto(s, "read")
    /\ UNCHANGED <<button, df, session_state, job_to_delete, crashed, missed,
                   fetchVars>>

\* the read of line 142, and the widgets drawn from the frame (lines 146-154
\* and 181)
ReadDf(s) ==
    /\ \/ pc[s] = "read"
       \/ pc[s] = "top" /\ button[s] # "extract"
    /\ LET new == SelectAll(db)
       IN  /\ df' = [df EXCEPT ![s] = new]
           /\ session_state' =
                 [session_state EXCEPT ![s] = DrawForms(df[s], @, new)]
           /\ job_to_delete' =
                 [job_to_delete EXCEPT ![s] = DrawSelect(df[s], @, new)]
    /\ Goto(s, "loaded")
    /\ UNCHANGED <<db, button, crashed, issued, missed, extractVars,
                   fetchVars>>

\* the handler of Save Edits (lines 157-169)
SaveEdits(s) ==
    /\ pc[s] = "loaded"
    /\ button[s] = "save"
    /\ \E adapted \in BOOLEAN :
          db' = UpdateLoop(db, df[s], session_state[s], 1, adapted)
    /\ issued' = issued \cup Ids(db')
    /\ missed' = missed \cup
          {df[s][idx]["id"] : idx \in {i \in 1..Len(df[s]) :
                                         df[s][i]["id"] \notin Ids(db)}}
    /\ Goto(s, "saved")
    /\ UNCHANGED <<button, df, session_state, job_to_delete, crashed,
                   extractVars, fetchVars>>

\* the last run of digits of the selected label
JobIdLast(label) ==
    LastDigits(label)

\* re.search(r"\d+", job_to_delete).group(): the digits int() gets from the
\* selected label (line 185)
JobId(label) ==
    FirstDigits(label)

\* the handler of Delete Selected Job on a selector with options: it ends in
\* st.experimental_rerun(), a new run from the top (lines 183-189)
DeleteSelectedJob(s) ==
    /\ pc[s] = "loaded"
    /\ button[s] = "delete"
    /\ Len(df[s]) > 0
    /\ LET job_id == JobId(Options(df[s])[job_to_delete[s]])
       IN  IF job_id = << >>
           THEN /\ crashed' = [crashed EXCEPT ![s] = TRUE]
                /\ Goto(s, "idle")
                /\ UNCHANGED <<db, button, missed>>
           ELSE /\ db' = Delete(db, BindInt(StrToInt(job_id)))
                /\ missed' = missed \cup ({StrToInt(job_id)} \ Ids(db))
                /\ Rerun(s, "none")
                /\ UNCHANGED crashed
    /\ UNCHANGED <<df, session_state, job_to_delete, issued, extractVars,
                   fetchVars>>

\* the rest of the run, down to the end of the script: the download button
\* gets download_excel(df), the selectbox its options from df, and no button
\* of the lines left was pressed (lines 171-183)
Finish(s) ==
    /\ \/ pc[s] = "saved"
       \/ pc[s] = "loaded" /\ button[s] \in {"none", "extract"}
       \/ pc[s] = "loaded" /\ button[s] = "delete" /\ Len(df[s]) = 0
    /\ Goto(s, "idle")
    /\ UNCHANGED <<db, button, df, session_state, job_to_delete, crashed,
                   issued, missed, extractVars, fetchVars>>

Step(s) ==
    \/ Open(s)
    \/ \E b \in {"extract", "save", "delete"} : Click(s, b)
    \/ EditForm(s)
    \/ SelectJob(s)
    \/ InitDb(s)
    \/ ExtractAndSave(s)
    \/ ReadDf(s)
    \/ SaveEdits(s)
    \/ DeleteSelectedJob(s)
    \/ Finish(s)

\* one browser session
Next ==
    Step(1)

Spec ==
    InitJob /\ [][Next]_vars

\* a second browser session on the same database file, whose user looks at
\* the list and deletes from it
StepOther(s) ==
    \/ Open(s)
    \/ Click(s, "delete")
    \/ SelectJob(s)
    \/ InitDb(s)
    \/ ReadDf(s)
    \/ DeleteSelectedJob(s)
    \/ Finish(s)

NextTwo ==
    \/ Step(1)
    \/ StepOther(2)

InitTwo ==
    JobStart({CurrentDb})

SpecTwo ==
    InitTwo /\ [][NextTwo]_vars

----------------------------------------------------------------------------
(* Claims about the tracker's handlers and its table.                      *)

\* the steps of a session's run in which a handler or a statement ran
InitStep(s) ==
    pc[s] = "init" /\ pc'[s] = "top"

ExtractStep(s) ==
    pc[s] = "top" /\ pc'[s] = "read"

ReadStep(s) ==
    pc[s] \in {"top", "read"} /\ pc'[s] = "loaded"

SaveStep(s) ==
    pc[s] = "loaded" /\ pc'[s] = "saved"

DeleteStep(s) ==
    pc[s] = "loaded" /\ button[s] = "delete" /\ Len(df[s]) > 0
        /\ pc'[s] # "loaded"

\* the ids of the rows of a frame
FrameIds(frame) ==
    {frame[i]["id"] : i \in 1..Len(frame)}

\* the id of the list entry the selectbox holds
SelectedId(s) ==
    df[s][job_to_delete[s]]["id"]

HasDigit(text) ==
    \E i \in 1..Len(text) : IsDigit(text[i])

\* C1: Delete Selected Job for the list entry with id k removes exactly the
\* record with id k: a listing afterwards holds no record with id k, and every
\* other record is still there with its id and its six field values, whatever
\* digits the title or the company in the label holds; no exception is raised.
C1_DeleteRemovesExactlyTheSelectedId ==
    [][\A s \in Sessions :
          DeleteStep(s) =>
              LET k == SelectedId(s)
                  after == SelectAll(db')
              IN  /\ ~crashed'[s]
                  /\ \A i \in 1..Len(after) : after[i]["id"] # k
                  /\ Ids(db') = Ids(db) \ {k}
                  /\ \A j \in Ids(db) \ {k} : db'.rows[j] = db.rows[j]]_vars

\* C1's case: the entry deleted had digits in its title and in its company,
\* was not the first of the list, and other records are left.
C1_Witness ==
    /\ pc[1] = "init"
    /\ Ids(db) # {}
    /\ \E idx \in 2..Len(df[1]) :
          /\ df[1][idx]["id"] \notin Ids(db)
          /\ HasDigit(Str(df[1][idx]["job_title"]))
          /\ HasDigit(Str(df[1][idx]["company"]))

\* C2 as stated: Save Edits replaces, for every record k of the listing read in
\* that run, the six stored fields of k by the form values held for k, keeps
\* k's id, and adds or removes no record.
C2_SaveEditsWritesTheForms ==
    [][\A s \in Sessions :
          SaveStep(s) =>
              /\ Ids(db') = Ids(db)
              /\ \A idx \in 1..Len(df[s]) :
                    LET k == df[s][idx]["id"]
                    IN  k \in Ids(db) =>
                            \A c \in Range(Fields) :
                                db'.rows[k][c] = session_state[s][idx][c]]_vars

\* C3: Extract and Save with the assembled record R adds exactly one record;
\* it equals R in the six fields, also where they are empty, its id is that of
\* no other record, every record stored before is unchanged, and the listing
\* read next holds one record more, the record R among them.
C3_InsertThenListRoundTrip ==
    [][\A s \in Sessions :
          /\ ExtractStep(s) =>
                LET new == Ids(db') \ Ids(db)
                    after == SelectAll(db')
                IN  /\ Cardinality(new) = 1
                    /\ Len(after) = Len(SelectAll(db)) + 1
                    /\ \A k \in new :
                          /\ \A i \in 1..Len(Fields) :
                                db'.rows[k][Fields[i]] =
                                    job_details'[DetailKeys[i]]
                          /\ Cardinality({i \in 1..Len(after) :
                                             after[i]["id"] = k}) = 1
                    /\ \A k \in Ids(db) : db'.rows[k] = db.rows[k]
          /\ ReadStep(s) /\ button[s] = "extract" =>
                /\ df'[s] = SelectAll(db)
                /\ Len(df'[s]) = Len(df[s]) + 1
                /\ \E idx \in 1..Len(df'[s]) :
                      /\ df'[s][idx]["id"] \notin FrameIds(df[s])
                      /\ \A i \in 1..Len(Fields) :
                            df'[s][idx][Fields[i]] =
                                job_details[DetailKeys[i]]]_vars

\* C3's case: a record with an empty title, company, location, requirements
\* and salary has been inserted beside another record and read back.
C3_Witness ==
    /\ pc[1] = "loaded"
    /\ button[1] = "extract"
    /\ Len(df[1]) >= 2
    /\ job_details # NoDetails
    /\ \A k \in Keys : job_details[k] = << >>
    /\ \E idx \in 1..Len(df[1]) :
          \A c \in Range(Fields) \ {"date"} : df[1][idx][c] = << >>

\* C4: no two records of a listing share an id, and the id an insert assigns
\* is greater than every id assigned before, the ids of deleted records and
\* the largest of them included.
C4_IdsUniqueAndIncreasing ==
    [][LET after == SelectAll(db')
       IN  /\ \A i, j \in 1..Len(after) :
                 after[i]["id"] = after[j]["id"] => i = j
           /\ \A k \in Ids(db') \ Ids(db) : \A j \in issued : j < k]_vars

\* C4's case: the record with the largest id was deleted, and a record
\* inserted after that is present.
C4_Witness ==
    /\ pc[1] = "read"
    /\ \E j \in issued \ Ids(db) :
          /\ \E k \in Ids(db) :
                /\ j < k
                /\ \A i \in Ids(db) \ {k} : i < j

\* the table as CREATE TABLE declares it: each of the seven columns once
Canonical(d) ==
    /\ d.exists
    /\ Len(d.columns) = Len(Columns)
    /\ Range(d.columns) = Range(Columns)

\* C5: the schema initialisation, started without a table, on a table without
\* the column salary or on a table with it, ends with a table of exactly the
\* seven columns, each once, and with every row that was there, its id and its
\* field values; run on a table it has initialised, it changes nothing.
C5_SchemaInitIdempotentAndLossless ==
    [][\A s \in Sessions :
          InitStep(s) =>
              /\ Canonical(db')
              /\ Ids(db') = Ids(db)
              /\ \A k \in Ids(db) :
                    \A c \in DOMAIN db.rows[k] : db'.rows[k][c] = db.rows[k][c]
              /\ Canonical(db) => db' = db]_vars

\* C5's case: the initialisation has run on the table without salary, which
\* had a row, and has run again since.
C5_Witness ==
    /\ pc[1] = "top"
    /\ df[1] # << >>
    /\ db.columns = Append(LegacyColumns, "salary")
    /\ 11 \in Ids(db)
    /\ db.rows[11]["salary"] = NULL
    /\ db.rows[11]["job_title"] = LegacyTitle

\* C6: an UPDATE or DELETE for an id that another session has deleted since
\* the listing was read changes no row, raises nothing and does not create the
\* record again; an id that was deleted is never present again.
C6_AbsentIdIsNoOpAndStaysAbsent ==
    [][/\ \A s \in Sessions :
             /\ SaveStep(s) =>
                   /\ ~crashed'[s]
                   /\ Ids(db') = Ids(db)
                   /\ FrameIds(df[s]) \cap Ids(db) = {} => db' = db
             /\ DeleteStep(s) /\ SelectedId(s) \notin Ids(db) =>
                   /\ ~crashed'[s]
                   /\ db' = db
       /\ \A k \in issued \ Ids(db) : k \notin Ids(db')
       /\ \A k \in missed' : k \notin Ids(db')]_vars

\* C6's case: Save Edits has run on a listing with an id that the other
\* session had deleted after the listing was read.
C6_Witness ==
    /\ missed # {}
    /\ \E s \in Sessions : pc[s] = "saved" /\ FrameIds(df[s]) \cap missed # {}

----------------------------------------------------------------------------
(* fetch_data under st.cache_data(ttl=3600), src/App.py:63-79 and 181-187. *)

\* ttl, in seconds (line 64)
TTL ==
    3600

\* the drugs of the selectbox and the limits of the number input that the
\* user picks (lines 61, 178-179)
DrugNames ==
    {"aspirin", "ibuprofen"}

Limits ==
    {50, 100}

Key(drug_name, limit) ==
    <<drug_name, limit>>

\* what requests.get(url) may bring: a body with results, a body without,
\* a body that is no JSON, and a failed or refused request
Responses ==
    {[kind |-> "ok", results |-> <<"event 1">>],
     [kind |-> "ok", results |-> <<"event 1", "event 2">>],
     [kind |-> "ok", results |-> << >>],
     [kind |-> "not json", results |-> << >>],
     [kind |-> "failed", results |-> << >>]}

\* what the body of fetch_data returns for a response (lines 67-79)
DataOf(response) ==
    IF response.kind = "ok" THEN response.results ELSE << >>

NoCall ==
    [state |-> "none", drug_name |-> "", limit |-> 0, data |-> << >>,
     requested |-> FALSE]

\* whether the cache holds an entry for the key that has not expired
Cached(c, key, t) ==
    key \in DOMAIN c /\ t < c[key].expires

\* the cache with only the results of successful requests stored
StoredIfOk(c, key, response, t) ==
    IF response.kind # "ok" THEN c
    ELSE [k \in DOMAIN c \cup {key} |->
             IF k = key THEN [value |-> DataOf(response), expires |-> t + TTL]
             ELSE c[k]]

\* the cache after fetch_data has returned for the key at time t: the
\* decorator stores whatever the body returned, for ttl seconds (line 64)
Stored(c, key, response, t) ==
    [k \in DOMAIN c \cup {key} |->
        IF k = key THEN [value |-> DataOf(response), expires |-> t + TTL]
        ELSE c[k]]

InitFetch ==
    /\ cache = [k \in {} |-> << >>]
    /\ now = 0
    /\ call = NoCall
    /\ requests = [k \in {} |-> << >>]
    /\ ExtractIdle
    /\ JobIdle

\* the user picks a drug and a limit and presses Fetch Data (lines 178-182)
FetchButton ==
    /\ call.state # "pending"
    /\ \E drug_name \in DrugNames, limit \in Limits :
          call' = [state |-> "pending", drug_name |-> drug_name,
                   limit |-> limit, data |-> << >>, requested |-> FALSE]
    /\ UNCHANGED <<cache, now, requests, extractVars, jobVars>>

\* fetch_data answered from the cache: the body does not run
CacheHit ==
    /\ call.state = "pending"
    /\ Cached(cache, Key(call.drug_name, call.limit), now)
    /\ call' = [call EXCEPT
                  !.state = "returned",
                  !.data = cache[Key(call.drug_name, call.limit)].value]
    /\ UNCHANGED <<cache, now, requests, extractVars, jobVars>>

\* fetch_data run: one HTTP request, and its result stored (lines 65-79)
CacheMiss ==
    /\ call.state = "pending"
    /\ ~Cached(cache, Key(call.drug_name, call.limit), now)
    /\ \E response \in Responses :
          LET key == Key(call.drug_name, call.limit)
          IN  /\ cache' = Stored(cache, key, response, now)
              /\ requests' =
                    [k \in DOMAIN requests \cup {key} |->
                        IF k = key
                        THEN [time |-> now, kind |-> response.kind,
                              data |-> DataOf(response)]
                        ELSE requests[k]]
              /\ call' = [call EXCEPT
                            !.state = "returned",
                            !.data = DataOf(response),
                            !.requested = TRUE]
    /\ UNCHANGED <<now, extractVars, jobVars>>

\* half of the validity window passes
Tick ==
    /\ now < MaxTicks * (TTL \div 2)
    /\ now' = now + (TTL \div 2)
    /\ UNCHANGED <<cache, call, requests, extractVars, jobVars>>

NextFetch ==
    \/ FetchButton
    \/ CacheHit
    \/ CacheMiss
    \/ Tick

SpecFetch ==
    InitFetch /\ [][NextFetch]_vars

\* C10: a call of fetch_data whose parameters were last requested less than
\* ttl seconds before returns what that request gave and issues no HTTP
\* request, whether that was records, an empty result or the empty list of a
\* failed request; a call whose parameters were never requested, or were
\* last requested ttl seconds before or earlier, issues one HTTP request.
C10_CallsWithinTheWindowAreAnsweredFromTheCache ==
    [][call.state = "pending" /\ call'.state = "returned" =>
          LET key == Key(call.drug_name, call.limit)
          IN  IF key \in DOMAIN requests /\ now - requests[key].time < TTL
              THEN /\ ~call'.requested
                   /\ requests' = requests
                   /\ call'.data = requests[key].data
              ELSE /\ call'.requested
                   /\ requests'[key].time = now]_vars

\* C10's case: a call answered from the cache with the empty list of a failed
\* request, half a window after it, while another key is held too.
C10_Witness ==
    /\ call.state = "returned"
    /\ ~call.requested
    /\ call.data = << >>
    /\ Key(call.drug_name, call.limit) \in DOMAIN requests
    /\ requests[Key(call.drug_name, call.limit)].kind = "failed"
    /\ now = requests[Key(call.drug_name, call.limit)].time + (TTL \div 2)
    /\ Cardinality(DOMAIN requests) > 1

====
